---- MODULE Spec2Model ----
(***************************************************************************)
(* Toulmini: the ToulminChain dependency state machine                     *)
(* (src/src/toulmini/models/chain.py), the component schemas               *)
(* (src/src/toulmini/models/components.py), the MCP server phase tools     *)
(* (src/src/toulmini/server.py), the tools-module variant of the pipeline  *)
(* (src/src/toulmini/tools.py) and the policy flags                        *)
(* (src/src/toulmini/config.py).                                           *)
(*                                                                         *)
(* An Optional[T] field is modelled as a set holding at most one value:    *)
(* {} is None, {v} is the value v.                                         *)
(***************************************************************************)
EXTENDS Integers, Sequences, FiniteSets, TLC

VARIABLES
    chain,          \* the ToulminChain value the caller currently holds
    chain_error,    \* what the last construction raised (NoError if nothing)
    attempt,        \* the slots populated in the last attempted construction
    op,             \* the last chain operation: "init", "construct", "submit"
    submitted,      \* the slot the last submit targeted ("" otherwise)
    warrant_json,   \* the warrant payload the caller holds (phase 2 output)
    backing_json,   \* the backing payload the caller holds (phase 2 output)
    config,         \* the lru_cache of get_config: {} when cleared, else {Config}
    stress_result,  \* what server.stress_test_argument last returned for these payloads and flags
    verdict_result, \* what server.render_verdict last returned for these payloads and flags
    tools_result,   \* what the last tools-module phase operation returned or raised
    check_result,   \* the last logic_check call on a component and what it raised
    strengths,      \* the strength of the chain's Warrant, Backing and Rebuttal, where populated
    sweep_result,   \* what the last run_logic_checks call on the chain raised
    verdict_built,  \* the last Verdict(...) construction: its arguments and what it raised
    last_call,      \* the last server tool call recorded with its arguments and its result
    env,            \* os.environ: the TOULMINI_* variable of every flag
    prev_cached,    \* the Config the caller got from its last get_config() is the cached one
    got,            \* what the caller's last get_config() returned
    config_error,   \* the exception the last configuration call raised, if any
    parsed,         \* the last flag read from the environment and its value
    bridge,         \* the _validate_logic_bridge call in progress, step by step
    table           \* the last to_markdown_table call: the texts and what was rendered

chainVars == <<chain, chain_error, attempt, op, submitted>>

payloadVars == <<warrant_json, backing_json>>

serverVars == <<config, stress_result, verdict_result>>

\* the state of the sweep, the Verdict schema, the recorded calls and the
\* environment-driven configuration
extVars == <<strengths, sweep_result, verdict_built, last_call, env, prev_cached, got>>

\* the outcome of the configuration calls and of the environment parsers
lateVars == <<config_error, parsed, bridge, table>>

vars == <<chain, chain_error, attempt, op, submitted, warrant_json, backing_json,
          config, stress_result, verdict_result, tools_result, check_result,
          strengths, sweep_result, verdict_built, last_call, env, prev_cached, got,
          config_error, parsed, bridge, table>>

(***************************************************************************)
(* Component values (models/base.py, models/components.py).  Free text is  *)
(* left out of a component held by a chain: chain validation reads only    *)
(* which slots are populated.                                              *)
(***************************************************************************)
SlotNames == <<"data", "claim", "warrant", "backing", "rebuttal", "qualifier", "verdict">>

Slots == {SlotNames[i] : i \in 1..Len(SlotNames)}

\* one of the EvidenceType literals
EvidenceType == {"empirical"}

\* one of the scopes validate_scope allows
ClaimScope == {"general"}

\* LogicType = Literal["deductive", "inductive", "abductive"]
LogicType == {"deductive", "inductive", "abductive"}

\* BackingStrength = Literal["strong", "moderate", "weak"]
BackingStrength == {"strong", "moderate", "weak"}

\* A Backing object that exists: reject_weak_backing refuses strength "weak".
BackingValues == {s \in BackingStrength : s # "weak"}

\* two of the RebuttalSeverity literals
RebuttalSeverity == {"fatal", "minor"}

\* one of the QualifierValue literals
QualifierValue == {"probably"}

\* two of the VerdictOutcome literals
VerdictOutcome == {"STANDS", "FALLS"}

ComponentValues(slot) ==
    CASE slot = "data" -> EvidenceType
      [] slot = "claim" -> ClaimScope
      [] slot = "warrant" -> LogicType
      [] slot = "backing" -> BackingValues
      [] slot = "rebuttal" -> RebuttalSeverity
      [] slot = "qualifier" -> QualifierValue
      [] slot = "verdict" -> VerdictOutcome

\* Optional[T]: None or one value of T
Optional(S) == {{}} \cup {{v} : v \in S}

\* every combination of populated slots a caller can pass to ToulminChain(...)
ChainRecords ==
    [data : Optional(EvidenceType), claim : Optional(ClaimScope),
     warrant : Optional(LogicType), backing : Optional(BackingValues),
     rebuttal : Optional(RebuttalSeverity), qualifier : Optional(QualifierValue),
     verdict : Optional(VerdictOutcome)]

EmptyChain ==
    [data |-> {}, claim |-> {}, warrant |-> {}, backing |-> {},
     rebuttal |-> {}, qualifier |-> {}, verdict |-> {}]

Populated(c) == {s \in Slots : c[s] # {}}

(***************************************************************************)
(* ToulminChain.current_phase and is_complete                              *)
(***************************************************************************)
\* slip: phase 2 as soon as a Warrant is present, the Backing not looked at
current_phase_WarrantOnly(c) ==
    IF c.verdict # {} THEN 4
    ELSE IF c.qualifier # {} /\ c.rebuttal # {} THEN 3
    ELSE IF c.warrant # {} THEN 2
    ELSE IF c.claim # {} /\ c.data # {} THEN 1
    ELSE 0

\* slip: phase 3 as soon as a Rebuttal is present, the Qualifier not looked at
current_phase_RebuttalOnly(c) ==
    IF c.verdict # {} THEN 4
    ELSE IF c.rebuttal # {} THEN 3
    ELSE IF c.backing # {} /\ c.warrant # {} THEN 2
    ELSE IF c.claim # {} /\ c.data # {} THEN 1
    ELSE 0

\* slip: a phase counts only while the next phase has not been started
current_phase_ElseZero(c) ==
    IF c.verdict # {} THEN 4
    ELSE IF c.qualifier # {} /\ c.rebuttal # {} THEN 3
    ELSE IF c.backing # {} /\ c.warrant # {} /\ c.rebuttal = {} THEN 2
    ELSE IF c.claim # {} /\ c.data # {} /\ c.warrant = {} THEN 1
    ELSE 0

current_phase(c) ==
    IF c.verdict # {} THEN 4
    ELSE IF c.qualifier # {} /\ c.rebuttal # {} THEN 3
    ELSE IF c.backing # {} /\ c.warrant # {} THEN 2
    ELSE IF c.claim # {} /\ c.data # {} THEN 1
    ELSE 0

is_complete(c) == c.verdict # {}

(***************************************************************************)
(* ChainValidationError(phase, message): the message names the missing     *)
(* prerequisite(s); `missing` holds the names the message carries.         *)
(***************************************************************************)
NoError == [raised |-> FALSE, phase |-> "", missing |-> <<>>]

ChainValidationError(phase, missing) ==
    [raised |-> TRUE, phase |-> phase, missing |-> missing]

\* the `missing` list the verdict branch builds, in the order of its appends
VerdictMissing(c) ==
    (IF c.data = {} THEN <<"Data">> ELSE <<>>) \o
    (IF c.claim = {} THEN <<"Claim">> ELSE <<>>) \o
    (IF c.warrant = {} THEN <<"Warrant">> ELSE <<>>) \o
    (IF c.backing = {} THEN <<"Backing">> ELSE <<>>) \o
    (IF c.rebuttal = {} THEN <<"Rebuttal">> ELSE <<>>) \o
    (IF c.qualifier = {} THEN <<"Qualifier">> ELSE <<>>)

\* slip: the "Qualifier requires Rebuttal" check left out
validate_NoQualifierCheck(c) ==
    IF c.claim # {} /\ c.data = {} THEN ChainValidationError("claim", <<"Data">>)
    ELSE IF c.warrant # {} /\ c.claim = {} THEN ChainValidationError("warrant", <<"Claim">>)
    ELSE IF c.backing # {} /\ c.warrant = {} THEN ChainValidationError("backing", <<"Warrant">>)
    ELSE IF c.rebuttal # {} /\ c.backing = {} THEN ChainValidationError("rebuttal", <<"Backing">>)
    ELSE IF c.verdict # {} /\ VerdictMissing(c) # <<>>
         THEN ChainValidationError("verdict", VerdictMissing(c))
    ELSE NoError

\* slip: the "Backing requires Warrant" check tests the Claim instead of the Warrant
validate_BackingChecksClaim(c) ==
    IF c.claim # {} /\ c.data = {} THEN ChainValidationError("claim", <<"Data">>)
    ELSE IF c.warrant # {} /\ c.claim = {} THEN ChainValidationError("warrant", <<"Claim">>)
    ELSE IF c.backing # {} /\ c.claim = {} THEN ChainValidationError("backing", <<"Warrant">>)
    ELSE IF c.rebuttal # {} /\ c.backing = {} THEN ChainValidationError("rebuttal", <<"Backing">>)
    ELSE IF c.qualifier # {} /\ c.rebuttal = {} THEN ChainValidationError("qualifier", <<"Rebuttal">>)
    ELSE IF c.verdict # {} /\ VerdictMissing(c) # <<>>
         THEN ChainValidationError("verdict", VerdictMissing(c))
    ELSE NoError

\* slip: the Verdict check moved to the front of the validator
validate_VerdictFirst(c) ==
    IF c.verdict # {} /\ VerdictMissing(c) # <<>>
    THEN ChainValidationError("verdict", VerdictMissing(c))
    ELSE IF c.claim # {} /\ c.data = {} THEN ChainValidationError("claim", <<"Data">>)
    ELSE IF c.warrant # {} /\ c.claim = {} THEN ChainValidationError("warrant", <<"Claim">>)
    ELSE IF c.backing # {} /\ c.warrant = {} THEN ChainValidationError("backing", <<"Warrant">>)
    ELSE IF c.rebuttal # {} /\ c.backing = {} THEN ChainValidationError("rebuttal", <<"Backing">>)
    ELSE IF c.qualifier # {} /\ c.rebuttal = {} THEN ChainValidationError("qualifier", <<"Rebuttal">>)
    ELSE NoError

\* ToulminChain.validate_sequential_dependencies: the first raise wins
validate_sequential_dependencies(c) ==
    IF c.claim # {} /\ c.data = {} THEN ChainValidationError("claim", <<"Data">>)
    ELSE IF c.warrant # {} /\ c.claim = {} THEN ChainValidationError("warrant", <<"Claim">>)
    ELSE IF c.backing # {} /\ c.warrant = {} THEN ChainValidationError("backing", <<"Warrant">>)
    ELSE IF c.rebuttal # {} /\ c.backing = {} THEN ChainValidationError("rebuttal", <<"Backing">>)
    ELSE IF c.qualifier # {} /\ c.rebuttal = {} THEN ChainValidationError("qualifier", <<"Rebuttal">>)
    ELSE IF c.verdict # {} /\ VerdictMissing(c) # <<>>
         THEN ChainValidationError("verdict", VerdictMissing(c))
    ELSE NoError

(***************************************************************************)
(* Chain operations.  ToulminChain(query, **slots) either returns the new  *)
(* chain or raises; the caller keeps its previous chain when it raises.    *)
(***************************************************************************)
ChainInit ==
    /\ chain = EmptyChain
    /\ chain_error = NoError
    /\ attempt = {}
    /\ op = "init"
    /\ submitted = ""

\* ToulminChain(query=..., data=..., claim=..., ...) with any combination of slots
Construct(c) ==
    LET v == validate_sequential_dependencies(c) IN
    /\ chain' = IF v.raised THEN chain ELSE c
    /\ chain_error' = v
    /\ attempt' = Populated(c)
    /\ op' = "construct"
    /\ submitted' = ""

\* slip: a submission starts its phase over, the slots after the submitted one
\* are dropped from the rebuilt chain
Submit_DropsLaterSlots(slot, value) ==
    LET pos == CHOOSE i \in 1..Len(SlotNames) : SlotNames[i] = slot
        c == [s \in Slots |->
                 IF s = slot THEN {value}
                 ELSE IF \E i \in 1..pos : SlotNames[i] = s THEN chain[s] ELSE {}]
        v == validate_sequential_dependencies(c) IN
    /\ chain' = IF v.raised THEN chain ELSE c
    /\ chain_error' = v
    /\ attempt' = Populated(c)
    /\ op' = "submit"
    /\ submitted' = slot

\* slip: the slot set on the existing chain first and validated afterwards
Submit_InPlace(slot, value) ==
    LET c == [chain EXCEPT ![slot] = {value}]
        v == validate_sequential_dependencies(c) IN
    /\ chain' = c
    /\ chain_error' = v
    /\ attempt' = Populated(c)
    /\ op' = "submit"
    /\ submitted' = slot

\* submit(chain, component): the chain rebuilt with one more (or a replaced) slot
Submit(slot, value) ==
    LET c == [chain EXCEPT ![slot] = {value}]
        v == validate_sequential_dependencies(c) IN
    /\ chain' = IF v.raised THEN chain ELSE c
    /\ chain_error' = v
    /\ attempt' = Populated(c)
    /\ op' = "submit"
    /\ submitted' = slot

ConstructChain ==
    /\ \E c \in ChainRecords : Construct(c)
    /\ UNCHANGED <<payloadVars, serverVars, tools_result, check_result, extVars, lateVars>>

SubmitComponent ==
    /\ \E slot \in Slots : \E value \in ComponentValues(slot) : Submit(slot, value)
    /\ UNCHANGED <<payloadVars, serverVars, tools_result, check_result, extVars, lateVars>>

\* chain.<slot> = value or chain.<slot> = None on an existing chain.  The class
\* sets no model_config: a pydantic BaseModel without validate_assignment stores
\* the attribute and runs no validator.
AssignSlot ==
    /\ \E slot \in Slots : \E v \in Optional(ComponentValues(slot)) :
          /\ chain' = [chain EXCEPT ![slot] = v]
          /\ attempt' = Populated([chain EXCEPT ![slot] = v])
          /\ submitted' = slot
    /\ chain_error' = NoError
    /\ op' = "assign"
    /\ UNCHANGED <<payloadVars, serverVars, tools_result, check_result, extVars, lateVars>>

(***************************************************************************)
(* JSON payloads.  A payload is the text the caller passes for one         *)
(* component: the empty string, a whitespace-only string, text that is not *)
(* JSON, JSON that is not an object, or an object with the fields below.   *)
(* Free text is kept as its length and, for a warrant principle, whether   *)
(* it holds one of the general-indicator words.                            *)
(***************************************************************************)
JsonKinds == {"empty", "blank", "malformed", "array", "object"}

\* the payloads of the components whose fields no phase tool reads
OtherArgs == {"empty", "blank", "malformed", "object"}

\* the same for the server tools, which only test them for the empty string
ServerArgs == {"empty", "object"}

\* StrengthLevel of the data model: the strength labels of the phase-2 prompt
StrengthLevel == {"absolute", "strong", "weak", "irrelevant"}

NonObjectWarrant(k) ==
    [json |-> k, principle_len |-> 0, general |-> FALSE, logic_type |-> "", strength |-> ""]

WarrantPayloads ==
    {NonObjectWarrant(k) : k \in JsonKinds \ {"object"}} \cup
    {[json |-> "object", principle_len |-> t[1], general |-> t[2], logic_type |-> l, strength |-> s] :
        t \in {<<20, TRUE>>, <<60, TRUE>>, <<60, FALSE>>, <<120, FALSE>>},
        l \in {"deductive", "bogus"},
        s \in StrengthLevel}

NonObjectBacking(k) ==
    [json |-> k, authority_len |-> 0, citations |-> 0, strength |-> ""]

\* strength "" is an object without a "strength" key
BackingPayloads ==
    {NonObjectBacking(k) : k \in JsonKinds \ {"object"}} \cup
    {[json |-> "object", authority_len |-> a, citations |-> n, strength |-> s] :
        a \in {10, 40}, n \in {0, 1},
        s \in {"strong", "moderate", "weak", "irrelevant", ""}}

\* principle: Field(min_length=30, max_length=800)
WarrantPrincipleMinLen == 30

WarrantPrincipleMaxLen == 800

\* validate_principle_is_general: a principle of 100 characters is presumed general
WarrantGeneralPresumedLen == 100

\* authority: Field(min_length=20, max_length=1000)
BackingAuthorityMinLen == 20

BackingAuthorityMaxLen == 1000

\* citations: Field(min_length=1)
BackingCitationsMin == 1

(***************************************************************************)
(* Exceptions a validation can raise.  pydantic's ValidationError is a     *)
(* ValueError; WeakBackingError derives from ToulminiError(Exception).     *)
(***************************************************************************)
NoException == [exc |-> "", reason |-> "", strength |-> ""]

Raise(exc, reason, strength) == [exc |-> exc, reason |-> reason, strength |-> strength]

IsValueError(exc) == exc \in {"ValueError", "ValidationError"}

\* Warrant.model_validate_json: the declared fields principle and logic_type
Warrant_model_validate_json(w) ==
    IF w.json # "object" THEN Raise("ValidationError", "Warrant: invalid JSON", "")
    ELSE IF \/ w.principle_len < WarrantPrincipleMinLen
            \/ w.principle_len > WarrantPrincipleMaxLen
            \/ (~w.general /\ w.principle_len < WarrantGeneralPresumedLen)
         THEN Raise("ValidationError", "Warrant: principle", "")
    ELSE IF w.logic_type \notin LogicType
         THEN Raise("ValidationError", "Warrant: logic_type", "")
    ELSE NoException

\* slip: reject_weak_backing left out, a weak Backing parses
Backing_model_validate_json_AcceptsWeak(b) ==
    IF b.json # "object" THEN Raise("ValidationError", "Backing: invalid JSON", "")
    ELSE IF \/ b.authority_len < BackingAuthorityMinLen
            \/ b.authority_len > BackingAuthorityMaxLen
         THEN Raise("ValidationError", "Backing: authority", "")
    ELSE IF b.citations < BackingCitationsMin
         THEN Raise("ValidationError", "Backing: citations", "")
    ELSE IF b.strength \notin BackingStrength
         THEN Raise("ValidationError", "Backing: strength", "")
    ELSE NoException

\* Backing.model_validate_json: field constraints, then reject_weak_backing
Backing_model_validate_json(b) ==
    IF b.json # "object" THEN Raise("ValidationError", "Backing: invalid JSON", "")
    ELSE IF \/ b.authority_len < BackingAuthorityMinLen
            \/ b.authority_len > BackingAuthorityMaxLen
         THEN Raise("ValidationError", "Backing: authority", "")
    ELSE IF b.citations < BackingCitationsMin
         THEN Raise("ValidationError", "Backing: citations", "")
    ELSE IF b.strength \notin BackingStrength
         THEN Raise("ValidationError", "Backing: strength", "")
    ELSE IF b.strength = "weak"
         THEN Raise("WeakBackingError", "Backing is too weak to support the warrant", "")
    ELSE NoException

(***************************************************************************)
(* Verdict(...) (models/components.py).  The reasoning text is kept as its *)
(* length, the number of Toulmin component names it mentions and the       *)
(* outcome words it contains (lower-cased); the final statement as its     *)
(* length.  outcome = "" is a call that passes no outcome; status is the   *)
(* keyword some callers pass instead, which the class does not declare.    *)
(***************************************************************************)
\* VerdictOutcome = Literal["STANDS", "FALLS", "QUALIFIED"]
VerdictOutcomeLiteral == {"STANDS", "FALLS", "QUALIFIED"}

VerdictReasoningMinLen == 100

VerdictReasoningMaxLen == 2000

VerdictFinalStatementMinLen == 20

VerdictFinalStatementMaxLen == 300

\* validate_reasoning_is_comprehensive: `mentioned < 3`
VerdictMentionedMin == 3

OutcomeWords == {"fails", "rejected", "succeeds", "sustained"}

VerdictInputs ==
    [outcome : VerdictOutcomeLiteral \cup {"bogus", ""},
     status : {"", "sustained", "overruled"},
     reasoning_len : {70, 150},
     mentioned : {1, 3},
     words : {{}} \cup {{w} : w \in OutcomeWords},
     final_len : {16, 40}]

\* Verdict(**v): the declared fields are validated, an undeclared keyword is
\* ignored; the reason is the first field pydantic reports
Verdict_validate(v) ==
    IF v.outcome = "" THEN Raise("ValidationError", "outcome: Field required", "")
    ELSE IF v.outcome \notin VerdictOutcomeLiteral
         THEN Raise("ValidationError", "outcome: Input should be 'STANDS', 'FALLS' or 'QUALIFIED'", "")
    ELSE IF \/ v.reasoning_len < VerdictReasoningMinLen
            \/ v.reasoning_len > VerdictReasoningMaxLen
         THEN Raise("ValidationError", "reasoning: length", "")
    ELSE IF v.mentioned < VerdictMentionedMin
         THEN Raise("ValidationError", "Verdict reasoning should reference most Toulmin components", "")
    ELSE IF \/ v.final_len < VerdictFinalStatementMinLen
            \/ v.final_len > VerdictFinalStatementMaxLen
         THEN Raise("ValidationError", "final_statement: length", "")
    ELSE NoException

(***************************************************************************)
(* Policy flags (config.py).  A cleared cache is refilled from the         *)
(* environment: env[key] is the raw text of the flag's TOULMINI_* variable *)
(* or "unset", and an unset variable gives the default.                    *)
(***************************************************************************)
ConfigKeys == {"enable_council", "strict_mode", "fail_on_weak_warrant", "fail_on_weak_backing"}

Configs == [ConfigKeys -> BOOLEAN]

\* the boolean fields of Config, and every field get_config reads from the
\* environment
BoolFlags == ConfigKeys \cup {"debug"}

ConfigAttrs == BoolFlags \cup {"log_level"}

\* the defaults get_config passes to _get_env_bool and _get_env_str
DefaultConfig == [key \in ConfigAttrs |-> IF key = "log_level" THEN "INFO" ELSE key # "debug"]

\* raw texts an environment variable can hold, and "unset" for os.getenv() = None
EnvValues == {"unset", "yes", " OFF"}

\* the characters of a text
Text(raw) ==
    CASE raw = "INFO" -> <<"I", "N", "F", "O">>
      [] raw = "yes" -> <<"y", "e", "s">>
      [] raw = "" -> <<>>
      [] raw = " " -> <<" ">>
      [] raw = "0" -> <<"0">>
      [] raw = "1" -> <<"1">>
      [] raw = "00" -> <<"0", "0">>
      [] raw = "false" -> <<"f", "a", "l", "s", "e">>
      [] raw = "False" -> <<"F", "a", "l", "s", "e">>
      [] raw = "FALSE" -> <<"F", "A", "L", "S", "E">>
      [] raw = "no" -> <<"n", "o">>
      [] raw = "No" -> <<"N", "o">>
      [] raw = " NO " -> <<" ", "N", "O", " ">>
      [] raw = "off" -> <<"o", "f", "f">>
      [] raw = "Off" -> <<"O", "f", "f">>
      [] raw = " OFF" -> <<" ", "O", "F", "F">>
      [] raw = "off\t" -> <<"o", "f", "f", "\t">>
      [] raw = "true" -> <<"t", "r", "u", "e">>
      [] raw = "on" -> <<"o", "n">>
      [] raw = "maybe" -> <<"m", "a", "y", "b", "e">>
      [] raw = "of" -> <<"o", "f">>
      [] raw = "n o" -> <<"n", " ", "o">>
      [] raw = "debug" -> <<"d", "e", "b", "u", "g">>
      [] raw = "Info" -> <<"I", "n", "f", "o">>
      [] raw = "WARNING" -> <<"W", "A", "R", "N", "I", "N", "G">>
      [] raw = "critical" -> <<"c", "r", "i", "t", "i", "c", "a", "l">>
      [] raw = "verbose" -> <<"v", "e", "r", "b", "o", "s", "e">>
      [] raw = " info" -> <<" ", "i", "n", "f", "o">>
      [] raw = "bogus" -> <<"b", "o", "g", "u", "s">>
      [] raw = "ERROR" -> <<"E", "R", "R", "O", "R">>

UpperLetters == <<"A", "B", "C", "D", "E", "F", "G", "H", "I", "J", "K", "L", "M", "N", "O", "P", "Q", "R", "S", "T", "U", "V", "W", "X", "Y", "Z">>

LowerLetters == <<"a", "b", "c", "d", "e", "f", "g", "h", "i", "j", "k", "l", "m", "n", "o", "p", "q", "r", "s", "t", "u", "v", "w", "x", "y", "z">>

\* str.lower() and str.upper(), one character at a time
Lower(chars) ==
    [i \in 1..Len(chars) |->
        IF \E k \in 1..Len(UpperLetters) : UpperLetters[k] = chars[i]
        THEN LowerLetters[CHOOSE k \in 1..Len(UpperLetters) : UpperLetters[k] = chars[i]]
        ELSE chars[i]]

\* slip: the log level validated as written, without str.upper()
Upper_AsWritten(chars) == chars

Upper(chars) ==
    [i \in 1..Len(chars) |->
        IF \E k \in 1..Len(LowerLetters) : LowerLetters[k] = chars[i]
        THEN UpperLetters[CHOOSE k \in 1..Len(LowerLetters) : LowerLetters[k] = chars[i]]
        ELSE chars[i]]

Whitespace == {" ", "\t"}

\* str.strip(): the text without its leading and trailing whitespace
Strip(chars) ==
    LET inner == {i \in 1..Len(chars) : chars[i] \notin Whitespace}
    IN  IF inner = {} THEN <<>>
        ELSE LET first == CHOOSE i \in inner : \A j \in inner : i <= j
                 last == CHOOSE i \in inner : \A j \in inner : j <= i
             IN  SubSeq(chars, first, last)

\* slip: the raw text lower-cased but not stripped
StripLower_NoStrip(raw) == Lower(Text(raw))

\* raw.strip().lower()
StripLower(raw) == Lower(Strip(Text(raw)))

\* _get_env_bool(name, default), raw = os.getenv(name)
_get_env_bool(raw, default) ==
    IF raw = "unset" THEN default
    ELSE StripLower(raw) \notin {Text("0"), Text("false"), Text("no"), Text("off")}

\* _get_env_str(name, default), raw = os.getenv(name)
_get_env_str(raw, default) == IF raw = "unset" THEN Text(default) ELSE Text(raw)

\* the names of the five logging levels
valid_log_levels == {<<"D", "E", "B", "U", "G">>, <<"I", "N", "F", "O">>, <<"W", "A", "R", "N", "I", "N", "G">>, <<"E", "R", "R", "O", "R">>, <<"C", "R", "I", "T", "I", "C", "A", "L">>}

\* Config(...) as get_config builds it from the environment
ConfigFromEnv ==
    [key \in ConfigAttrs |->
        IF key = "log_level" THEN Upper(_get_env_str(env[key], DefaultConfig[key]))
        ELSE _get_env_bool(env[key], DefaultConfig[key])]

\* get_config raises ConfigurationError: a new Config is built and its
\* log_level is none of the valid ones
get_config_raises(cache) == cache = {} /\ ConfigFromEnv.log_level \notin valid_log_levels

\* the exception a configuration call raised: its class, the key an
\* AttributeError names and the log level a ConfigurationError names
NoConfigError == [exc |-> "", key |-> "", level |-> <<>>]

ConfigError(exc, key, level) == [exc |-> exc, key |-> key, level |-> level]

\* slip: get_config without its lru_cache, the environment read at every call
get_config_Uncached(cache) == ConfigFromEnv

\* get_config under lru_cache(maxsize=1): the cached Config, or a new one
get_config(cache) == IF cache = {} THEN ConfigFromEnv ELSE CHOOSE c \in cache : TRUE

(***************************************************************************)
(* The circuit breaker: Warrant.logic_check and Backing.logic_check, which *)
(* server.py calls.  Section 4.2: with strict_mode and the component's     *)
(* fail flag, a strength of weak or irrelevant raises a rejection naming   *)
(* the component and the strength.                                         *)
(***************************************************************************)
Warrant_logic_check(strength, cfg) ==
    IF cfg.strict_mode /\ cfg.fail_on_weak_warrant /\ strength \in {"weak", "irrelevant"}
    THEN Raise("ValueError", "WARRANT REJECTED", strength)
    ELSE NoException

Backing_logic_check(strength, cfg) ==
    IF cfg.strict_mode /\ cfg.fail_on_weak_backing /\ strength \in {"weak", "irrelevant"}
    THEN Raise("ValueError", "BACKING REJECTED", strength)
    ELSE NoException

\* slip: the fatal-rebuttal check made part of the strict-mode policy
Rebuttal_logic_check_Gated(strength, cfg) ==
    IF cfg.strict_mode /\ strength = "absolute"
    THEN Raise("ValueError", "REBUTTAL FATAL", strength)
    ELSE NoException

\* Rebuttal.logic_check: an absolute rebuttal is fatal whatever the flags
Rebuttal_logic_check(strength, cfg) ==
    IF strength = "absolute"
    THEN Raise("ValueError", "REBUTTAL FATAL", strength)
    ELSE NoException

NoCheck == [component |-> "", strength |-> "", exc |-> "", reason |-> ""]

Checked(component, strength, e) ==
    [component |-> component, strength |-> strength, exc |-> e.exc, reason |-> e.reason]

(***************************************************************************)
(* ToulminChain.run_logic_checks, which tests/test_models.py calls: the    *)
(* sweep of section 4.3 that re-applies the strength checks to whatever is *)
(* populated.  st maps warrant, backing and rebuttal to the strength of    *)
(* the component the chain holds ({} for an empty slot).                   *)
(***************************************************************************)
BreakerSlots == {"warrant", "backing", "rebuttal"}

\* component.logic_check() of the component held at `slot`
Component_logic_check(slot, strength, cfg) ==
    CASE slot = "warrant" -> Warrant_logic_check(strength, cfg)
      [] slot = "backing" -> Backing_logic_check(strength, cfg)
      [] slot = "rebuttal" -> Rebuttal_logic_check(strength, cfg)

\* the check of one slot: nothing to check when the slot is empty
SlotCheck(st, slot, cfg) ==
    IF st[slot] = {} THEN NoCheck
    ELSE LET strength == CHOOSE x \in st[slot] : TRUE IN
         Checked(slot, strength, Component_logic_check(slot, strength, cfg))

\* slip: the sweep stops after the logic bridge and never reaches the Rebuttal
run_logic_checks_BridgeOnly(st, cfg) ==
    LET w == SlotCheck(st, "warrant", cfg)
        b == SlotCheck(st, "backing", cfg) IN
    IF w.exc # "" THEN w
    ELSE IF b.exc # "" THEN b
    ELSE Checked("chain", "", NoException)

\* run_logic_checks: the first failing check raises; Checked("chain", ...) with
\* no exception is the normal return
run_logic_checks(st, cfg) ==
    LET w == SlotCheck(st, "warrant", cfg)
        b == SlotCheck(st, "backing", cfg)
        r == SlotCheck(st, "rebuttal", cfg) IN
    IF w.exc # "" THEN w
    ELSE IF b.exc # "" THEN b
    ELSE IF r.exc # "" THEN r
    ELSE Checked("chain", "", NoException)

(***************************************************************************)
(* server.py: results are the JSON error envelope or the phase prompt      *)
(***************************************************************************)
NoCall == [out |-> "NONE", reason |-> "", strength |-> "", missing |-> <<>>]

Prompt(name) == [out |-> name, reason |-> "", strength |-> "", missing |-> <<>>]

ErrorJson(error, reason, strength, missing) ==
    [out |-> error, reason |-> reason, strength |-> strength, missing |-> missing]

\* the two except clauses of _validate_logic_bridge
ExceptionResponse(e) ==
    IF IsValueError(e.exc)
    THEN ErrorJson("TERMINATION_SIGNAL", e.reason, e.strength, <<>>)
    ELSE ErrorJson("VALIDATION_ERROR", e.reason, e.strength, <<>>)

\* _validate_logic_bridge: Prompt("OK") stands for the None it returns on success
_validate_logic_bridge(w, b, cfg) ==
    LET wp == Warrant_model_validate_json(w)
        wl == Warrant_logic_check(w.strength, cfg)
        bp == Backing_model_validate_json(b)
        bl == Backing_logic_check(b.strength, cfg) IN
    IF wp.exc # "" THEN ExceptionResponse(wp)
    ELSE IF wl.exc # "" THEN ExceptionResponse(wl)
    ELSE IF bp.exc # "" THEN ExceptionResponse(bp)
    ELSE IF bl.exc # "" THEN ExceptionResponse(bl)
    ELSE Prompt("OK")

\* `not x` of a str argument
IsEmptyStr(kind) == kind = "empty"

\* consult_field_experts(query, perspectives): perspectives is the length of the list
consult_field_experts(perspectives) ==
    IF perspectives = 0 THEN ErrorJson("NO_PERSPECTIVES_PROVIDED", "", "", <<>>)
    ELSE Prompt("PROMPT_CONSULT_EXPERTS")

\* slip: `and` for `or`: rejected only when both phase-1 outputs are missing
inject_logic_bridge_BothEmpty(data_json, claim_json) ==
    IF IsEmptyStr(data_json) /\ IsEmptyStr(claim_json)
    THEN ErrorJson("MISSING_PHASE_1_OUTPUT", "", "", <<>>)
    ELSE Prompt("PROMPT_PHASE_2")

inject_logic_bridge(data_json, claim_json) ==
    IF IsEmptyStr(data_json) \/ IsEmptyStr(claim_json)
    THEN ErrorJson("MISSING_PHASE_1_OUTPUT", "", "", <<>>)
    ELSE Prompt("PROMPT_PHASE_2")

format_analysis_report(data_json, claim_json, w, b, rebuttal_json, qualifier_json, verdict_json) ==
    IF \E k \in {data_json, claim_json, w, b, rebuttal_json, qualifier_json, verdict_json} :
          IsEmptyStr(k)
    THEN ErrorJson("INCOMPLETE_CHAIN", "", "", <<>>)
    ELSE Prompt("PROMPT_FORMAT_REPORT")

stress_test_argument(data_json, claim_json, w, b, cfg) ==
    LET missing ==
            (IF IsEmptyStr(data_json) THEN <<"data">> ELSE <<>>) \o
            (IF IsEmptyStr(claim_json) THEN <<"claim">> ELSE <<>>) \o
            (IF IsEmptyStr(w.json) THEN <<"warrant">> ELSE <<>>) \o
            (IF IsEmptyStr(b.json) THEN <<"backing">> ELSE <<>>)
        breaker == _validate_logic_bridge(w, b, cfg) IN
    IF missing # <<>> THEN ErrorJson("MISSING_COMPONENTS", "", "", missing)
    ELSE IF breaker.out # "OK" THEN breaker
    ELSE Prompt("PROMPT_PHASE_3")

\* slip: the phase-4 tool trusts that phase 3 already validated the payloads
render_verdict_NoRevalidation(data_json, claim_json, w, b, rebuttal_json, qualifier_json, cfg) ==
    IF \E k \in {data_json, claim_json, w.json, b.json, rebuttal_json, qualifier_json} : IsEmptyStr(k)
    THEN ErrorJson("INCOMPLETE_CHAIN", "", "", <<>>)
    ELSE Prompt("PROMPT_PHASE_4")

render_verdict(data_json, claim_json, w, b, rebuttal_json, qualifier_json, cfg) ==
    LET breaker == _validate_logic_bridge(w, b, cfg) IN
    IF \E k \in {data_json, claim_json, w.json, b.json, rebuttal_json, qualifier_json} : IsEmptyStr(k)
    THEN ErrorJson("INCOMPLETE_CHAIN", "", "", <<>>)
    ELSE IF breaker.out # "OK" THEN breaker
    ELSE Prompt("PROMPT_PHASE_4")

(***************************************************************************)
(* tools.py: the tools-module variant raises instead of returning JSON     *)
(***************************************************************************)
ToolNoCall == [tool |-> "", raised |-> "", missing |-> <<>>, phase |-> 0]

ToolReturn(tool, phase) == [tool |-> tool, raised |-> "", missing |-> <<>>, phase |-> phase]

ToolRaise(tool, exc, missing) == [tool |-> tool, raised |-> exc, missing |-> missing, phase |-> 0]

\* `not x or x.strip() == ""`
IsMissingArg(kind) == kind \in {"empty", "blank"}

\* _validate_json: json.loads succeeds on any JSON text
JsonDecodes(kind) == kind \in {"array", "object"}

tools_stress_test_argument(data_json, claim_json, w, b) ==
    LET missing ==
            (IF IsMissingArg(data_json) THEN <<"data">> ELSE <<>>) \o
            (IF IsMissingArg(claim_json) THEN <<"claim">> ELSE <<>>) \o
            (IF IsMissingArg(w.json) THEN <<"warrant">> ELSE <<>>) \o
            (IF IsMissingArg(b.json) THEN <<"backing">> ELSE <<>>)
        backing_strength == IF b.strength = "" THEN "unknown" ELSE b.strength IN
    IF missing # <<>> THEN ToolRaise("stress_test_argument", "DependencyError", missing)
    ELSE IF \E k \in {data_json, claim_json, w.json, b.json} : ~JsonDecodes(k)
         THEN ToolRaise("stress_test_argument", "OutputFormatError", <<>>)
    ELSE IF b.json # "object"
         THEN ToolRaise("stress_test_argument", "AttributeError", <<>>)
    ELSE IF backing_strength = "weak"
         THEN ToolRaise("stress_test_argument", "DependencyError", <<"strong backing">>)
    ELSE ToolReturn("stress_test_argument", 3)

tools_render_verdict(data_json, claim_json, w, b, rebuttal_json, qualifier_json) ==
    LET missing ==
            (IF IsMissingArg(data_json) THEN <<"data">> ELSE <<>>) \o
            (IF IsMissingArg(claim_json) THEN <<"claim">> ELSE <<>>) \o
            (IF IsMissingArg(w.json) THEN <<"warrant">> ELSE <<>>) \o
            (IF IsMissingArg(b.json) THEN <<"backing">> ELSE <<>>) \o
            (IF IsMissingArg(rebuttal_json) THEN <<"rebuttal">> ELSE <<>>) \o
            (IF IsMissingArg(qualifier_json) THEN <<"qualifier">> ELSE <<>>) IN
    IF missing # <<>> THEN ToolRaise("render_verdict", "DependencyError", missing)
    ELSE IF \E k \in {data_json, claim_json, w.json, b.json, rebuttal_json, qualifier_json} :
                ~JsonDecodes(k)
         THEN ToolRaise("render_verdict", "OutputFormatError", <<>>)
    ELSE ToolReturn("render_verdict", 4)

(***************************************************************************)
(* ToulminChain.to_markdown_table (models/chain.py).  A text is kept as    *)
(* its length; a rendered value as the number of characters of the text it *)
(* keeps, whether "..." follows them, and its length.  Data.facts and      *)
(* Rebuttal.edge_cases are lists of texts.                                 *)
(***************************************************************************)
\* the width the table cuts a text to
TableWidth == 80

\* the characters kept of a joined list that is cut
JoinedKept == 77

\* len("...")
EllipsisLen == 3

\* len("; ")
SeparatorLen == 2

\* len("; ".join(items[:2]))
JoinFirstTwo(items) ==
    IF Len(items) = 1 THEN items[1] ELSE items[1] + SeparatorLen + items[2]

Rendered(kept, ellipsis) ==
    [kept |-> kept, ellipsis |-> ellipsis, len |-> kept + (IF ellipsis THEN EllipsisLen ELSE 0)]

\* facts = "; ".join(...); if len(facts) > 80: facts = facts[:77] + "..."
RenderJoined(items) ==
    IF JoinFirstTwo(items) > TableWidth THEN Rendered(JoinedKept, TRUE)
    ELSE Rendered(JoinFirstTwo(items), FALSE)

\* stmt = text[:80]; if len(text) > 80: stmt += "..."
RenderCut(n) ==
    Rendered(IF n > TableWidth THEN TableWidth ELSE n, n > TableWidth)

\* f"{self.verdict.outcome}: {self.verdict.final_statement}": the text as it is
RenderWhole(n) == Rendered(n, FALSE)

TableFields == {"facts", "statement", "principle", "authority", "edge_cases", "final_statement"}

\* the free-text values of the rows of a complete chain
to_markdown_table(texts) ==
    [field \in TableFields |->
        CASE field \in {"facts", "edge_cases"} -> RenderJoined(texts[field])
          [] field \in {"statement", "principle", "authority"} -> RenderCut(texts[field])
          [] field = "final_statement" -> RenderWhole(texts[field])]

\* lists of one to three texts, joined below, at and above the width
TextLists == {<<40>>, <<39, 39>>, <<40, 39>>, <<60, 60, 60>>}

\* lengths the schemas allow for each text: at the width, just above it, and
\* the maximum of the final statement
TextLengths == {80, 81, 300}

(***************************************************************************)
(* One stress_test_argument or render_verdict call taken step by step, for *)
(* a caller of set_config_value running beside it.  server.py passes no    *)
(* configuration to warrant.logic_check() and backing.logic_check(): each  *)
(* check reads the attributes of the Config singleton when it runs, first  *)
(* strict_mode and then its own fail flag, and set_config_value assigns to *)
(* that same instance.                                                     *)
(***************************************************************************)
BridgeTools == {"stress_test_argument", "render_verdict"}

\* the payloads of the call: a Warrant and a Backing of either strength, and a
\* Warrant that does not parse
BridgeWarrants ==
    {NonObjectWarrant("malformed")} \cup
    {[json |-> "object", principle_len |-> 120, general |-> FALSE, logic_type |-> "deductive", strength |-> st] :
        st \in {"strong", "weak"}}

BridgeBackings ==
    {[json |-> "object", authority_len |-> 40, citations |-> 1, strength |-> st] : st \in {"strong", "weak"}}

\* no call in progress
BridgeIdle ==
    [pc |-> "idle", tool |-> "", w |-> NonObjectWarrant("empty"), b |-> NonObjectBacking("empty"),
     before |-> {}, after |-> {}, strict |-> FALSE, set_at |-> "", response |-> NoCall]

\* what the tool returns once _validate_logic_bridge returned None
ToolPrompt(tool) ==
    IF tool = "stress_test_argument" THEN Prompt("PROMPT_PHASE_3") ELSE Prompt("PROMPT_PHASE_4")

\* the call returns `response`; the flags as they are at that moment are kept
BridgeReturn(response) ==
    [bridge EXCEPT !.pc = "done", !.response = response, !.after = {get_config(config)}]

\* the whole call under one value of the flags, its other arguments present
ToolOutcome(tool, w, b, cfg) ==
    IF tool = "stress_test_argument"
    THEN stress_test_argument("object", "object", w, b, cfg)
    ELSE render_verdict("object", "object", w, b, "object", "object", cfg)

(***************************************************************************)
(* Initial state and the actions of the three specifications               *)
(***************************************************************************)
Init ==
    /\ ChainInit
    /\ warrant_json = NonObjectWarrant("empty")
    /\ backing_json = NonObjectBacking("empty")
    /\ config = {}
    /\ stress_result = NoCall
    /\ verdict_result = NoCall
    /\ tools_result = ToolNoCall
    /\ check_result = NoCheck
    /\ strengths = [slot \in {"warrant", "backing", "rebuttal"} |-> {}]
    /\ sweep_result = NoCheck
    /\ verdict_built = {}
    /\ last_call = {}
    /\ env = [key \in ConfigAttrs |-> "unset"]
    /\ prev_cached = FALSE
    /\ got = {}
    /\ config_error = NoConfigError
    /\ parsed = {}
    /\ bridge = BridgeIdle
    /\ table = {}

\* the caller executes the phase-2 prompt and keeps the warrant it produced;
\* results of calls made with the previous payload are forgotten
ProduceWarrant ==
    /\ \E w \in WarrantPayloads : warrant_json' = w
    /\ stress_result' = NoCall
    /\ verdict_result' = NoCall
    /\ tools_result' = ToolNoCall
    /\ UNCHANGED <<chainVars, backing_json, config, check_result, extVars, lateVars>>

ProduceBacking ==
    /\ \E b \in BackingPayloads : backing_json' = b
    /\ stress_result' = NoCall
    /\ verdict_result' = NoCall
    /\ tools_result' = ToolNoCall
    /\ UNCHANGED <<chainVars, warrant_json, config, check_result, extVars, lateVars>>

\* server.stress_test_argument(query, data_json, claim_json, warrant_json, backing_json)
ServerStressTest ==
    /\ \E d \in ServerArgs, c \in ServerArgs :
          stress_result' = stress_test_argument(d, c, warrant_json, backing_json, get_config(config))
    /\ config' = {get_config(config)}
    /\ UNCHANGED <<chainVars, payloadVars, verdict_result, tools_result, check_result, extVars, lateVars>>

\* server.render_verdict(query, data_json, ..., rebuttal_json, qualifier_json)
ServerRenderVerdict ==
    /\ \E d \in ServerArgs, c \in ServerArgs, r \in ServerArgs, q \in ServerArgs :
          verdict_result' =
              render_verdict(d, c, warrant_json, backing_json, r, q, get_config(config))
    /\ config' = {get_config(config)}
    /\ UNCHANGED <<chainVars, payloadVars, stress_result, tools_result, check_result, extVars, lateVars>>

\* set_config_value(key, value): setattr on the cached instance; the results
\* kept are those of calls under the current flags
\* slip: the cache cleared after the setattr, as the function's comments announce
set_config_value_ClearsCache(key, value) ==
    /\ config' = {}
    /\ config_error' = NoConfigError
    /\ stress_result' = NoCall
    /\ verdict_result' = NoCall
    /\ UNCHANGED <<chainVars, payloadVars, tools_result, check_result, extVars, parsed, table>>

\* slip: the cache cleared before the unknown key is reported
set_config_value_ResetsOnUnknownKey(key, value) ==
    /\ IF get_config_raises(config)
       THEN config' = config /\ config_error' = ConfigError("ConfigurationError", "", ConfigFromEnv.log_level)
       ELSE IF key \notin ConfigAttrs
            THEN /\ config' = {}
                 /\ config_error' = ConfigError("AttributeError", key, <<>>)
            ELSE /\ config' = {[get_config(config) EXCEPT ![key] = value]}
                 /\ config_error' = NoConfigError
    /\ stress_result' = NoCall
    /\ verdict_result' = NoCall
    /\ UNCHANGED <<chainVars, payloadVars, tools_result, check_result, extVars, parsed, table>>

\* set_config_value(key, value): get_config(), which may raise; then
\* AttributeError when the instance has no such attribute; then setattr on the
\* instance get_config returned
set_config_value(key, value) ==
    /\ IF get_config_raises(config)
       THEN config' = config /\ config_error' = ConfigError("ConfigurationError", "", ConfigFromEnv.log_level)
       ELSE IF key \notin ConfigAttrs
            THEN /\ config' = {get_config(config)}
                 /\ config_error' = ConfigError("AttributeError", key, <<>>)
            ELSE /\ config' = {[get_config(config) EXCEPT ![key] = value]}
                 /\ config_error' = NoConfigError
    /\ stress_result' = NoCall
    /\ verdict_result' = NoCall
    /\ UNCHANGED <<chainVars, payloadVars, tools_result, check_result, extVars, parsed, table>>

SetConfigValue ==
    /\ \E key \in ConfigKeys, value \in BOOLEAN : set_config_value(key, value)
    /\ UNCHANGED bridge

\* keys and values a caller passes to set_config_value: a flag, the log level
\* with a valid and an invalid name, and names Config does not have
AttrKeys == {"strict_mode", "log_level", "invalid_key_that_does_not_exist", "strict"}

AttrValues(key) == IF key = "log_level" THEN {Text("ERROR"), Text("bogus")} ELSE BOOLEAN

SetConfigAttr ==
    /\ \E key \in AttrKeys : \E value \in AttrValues(key) : set_config_value(key, value)
    /\ UNCHANGED bridge

\* the tool is entered with every argument present; Warrant.model_validate_json
BridgeEnter ==
    /\ bridge.pc \in {"idle", "done"}
    /\ \E tool \in BridgeTools, w \in BridgeWarrants, b \in BridgeBackings :
          LET wp == Warrant_model_validate_json(w)
              br == [BridgeIdle EXCEPT !.tool = tool, !.w = w, !.b = b,
                                       !.before = {get_config(config)}]
          IN  bridge' = IF wp.exc # ""
                        THEN [br EXCEPT !.pc = "done", !.response = ExceptionResponse(wp),
                                        !.after = {get_config(config)}]
                        ELSE [br EXCEPT !.pc = "warrant_strict"]
    /\ UNCHANGED <<chainVars, payloadVars, serverVars, tools_result, check_result, extVars,
                   config_error, parsed, table>>

\* warrant.logic_check(): get_config().strict_mode is read
WarrantReadStrict ==
    /\ bridge.pc = "warrant_strict"
    /\ bridge' = [bridge EXCEPT !.pc = "warrant_flag", !.strict = get_config(config).strict_mode]
    /\ config' = {get_config(config)}
    /\ UNCHANGED <<chainVars, payloadVars, stress_result, verdict_result, tools_result,
                   check_result, extVars, config_error, parsed, table>>

\* warrant.logic_check(): fail_on_weak_warrant is read and the Warrant judged;
\* then Backing.model_validate_json
WarrantDecide ==
    /\ bridge.pc = "warrant_flag"
    /\ LET wl == Warrant_logic_check(bridge.w.strength,
                                     [get_config(config) EXCEPT !.strict_mode = bridge.strict])
           bp == Backing_model_validate_json(bridge.b)
       IN  bridge' = IF wl.exc # "" THEN BridgeReturn(ExceptionResponse(wl))
                     ELSE IF bp.exc # "" THEN BridgeReturn(ExceptionResponse(bp))
                     ELSE [bridge EXCEPT !.pc = "backing_strict"]
    /\ config' = {get_config(config)}
    /\ UNCHANGED <<chainVars, payloadVars, stress_result, verdict_result, tools_result,
                   check_result, extVars, config_error, parsed, table>>

\* backing.logic_check(): get_config().strict_mode is read
BackingReadStrict ==
    /\ bridge.pc = "backing_strict"
    /\ bridge' = [bridge EXCEPT !.pc = "backing_flag", !.strict = get_config(config).strict_mode]
    /\ config' = {get_config(config)}
    /\ UNCHANGED <<chainVars, payloadVars, stress_result, verdict_result, tools_result,
                   check_result, extVars, config_error, parsed, table>>

\* backing.logic_check(): fail_on_weak_backing is read and the Backing judged;
\* the tool returns
BackingDecide ==
    /\ bridge.pc = "backing_flag"
    /\ LET bl == Backing_logic_check(bridge.b.strength,
                                     [get_config(config) EXCEPT !.strict_mode = bridge.strict])
       IN  bridge' = IF bl.exc # "" THEN BridgeReturn(ExceptionResponse(bl))
                     ELSE BridgeReturn(ToolPrompt(bridge.tool))
    /\ config' = {get_config(config)}
    /\ UNCHANGED <<chainVars, payloadVars, stress_result, verdict_result, tools_result,
                   check_result, extVars, config_error, parsed, table>>

\* the one set_config_value call that runs while the tool call is in progress
BridgeConcurrentSet ==
    /\ bridge.pc \in {"warrant_strict", "warrant_flag", "backing_strict", "backing_flag"}
    /\ bridge.set_at = ""
    /\ \E key \in ConfigKeys, value \in BOOLEAN : set_config_value(key, value)
    /\ bridge' = [bridge EXCEPT !.set_at = bridge.pc]

\* set_config_value while no tool call is in progress
BridgeSetBetweenCalls ==
    /\ bridge.pc \in {"idle", "done"}
    /\ SetConfigValue

\* chain.to_markdown_table() on a complete chain with the given texts
RenderTable ==
    /\ \E facts \in TextLists, edge_cases \in TextLists :
       \E statement \in TextLengths, principle \in TextLengths :
       \E authority \in TextLengths, final_statement \in TextLengths :
          LET texts == [facts |-> facts, statement |-> statement, principle |-> principle,
                        authority |-> authority, edge_cases |-> edge_cases,
                        final_statement |-> final_statement]
          IN  table' = {[texts |-> texts, rows |-> to_markdown_table(texts)]}
    /\ UNCHANGED <<chainVars, payloadVars, serverVars, tools_result, check_result, extVars,
                   config_error, parsed, bridge>>

\* reset_config(): get_config.cache_clear()
ResetConfig ==
    /\ config' = {}
    /\ prev_cached' = FALSE
    /\ config_error' = NoConfigError
    /\ stress_result' = NoCall
    /\ verdict_result' = NoCall
    /\ UNCHANGED <<chainVars, payloadVars, tools_result, check_result,
                   strengths, sweep_result, verdict_built, last_call, env, got, parsed, bridge, table>>

\* warrant.logic_check() on a Warrant object
WarrantLogicCheck ==
    /\ \E s \in StrengthLevel :
          check_result' = Checked("warrant", s, Warrant_logic_check(s, get_config(config)))
    /\ config' = {get_config(config)}
    /\ UNCHANGED <<chainVars, payloadVars, stress_result, verdict_result, tools_result, extVars, lateVars>>

\* backing.logic_check() on a Backing object (one that reject_weak_backing let through)
BackingLogicCheck ==
    /\ \E s \in BackingValues :
          check_result' = Checked("backing", s, Backing_logic_check(s, get_config(config)))
    /\ config' = {get_config(config)}
    /\ UNCHANGED <<chainVars, payloadVars, stress_result, verdict_result, tools_result, extVars, lateVars>>

\* rebuttal.logic_check() on a Rebuttal object
RebuttalLogicCheck ==
    /\ \E s \in StrengthLevel :
          check_result' = Checked("rebuttal", s, Rebuttal_logic_check(s, get_config(config)))
    /\ config' = {get_config(config)}
    /\ UNCHANGED <<chainVars, payloadVars, stress_result, verdict_result, tools_result, extVars, lateVars>>

\* the strengths a component submitted to `slot` can carry: a Backing's strength
\* is the value the chain holds, the other components carry none
ComponentStrengths(slot, value) ==
    CASE slot \in {"warrant", "rebuttal"} -> StrengthLevel
      [] slot = "backing" -> {value}
      [] OTHER -> {""}

\* the component values submitted when it is the strength that matters: every
\* Backing, and one value for each of the other slots
SweepValues(slot) ==
    IF slot = "backing" THEN BackingValues
    ELSE {CHOOSE v \in ComponentValues(slot) : TRUE}

\* ToulminChain(...) with one more (or a replaced) component that carries a
\* strength: construction runs validate_sequential_dependencies and no breaker
SubmitWithStrength ==
    /\ \E slot \in Slots : \E value \in SweepValues(slot) :
          \E s \in ComponentStrengths(slot, value) :
             LET c == [chain EXCEPT ![slot] = {value}] IN
             /\ Submit(slot, value)
             /\ strengths' =
                   IF slot \in BreakerSlots /\ ~validate_sequential_dependencies(c).raised
                   THEN [strengths EXCEPT ![slot] = {s}]
                   ELSE strengths
    /\ sweep_result' = NoCheck
    /\ UNCHANGED <<payloadVars, serverVars, tools_result, check_result,
                   verdict_built, last_call, env, prev_cached, got, lateVars>>

\* chain.run_logic_checks()
RunLogicChecks ==
    /\ sweep_result' = run_logic_checks(strengths, get_config(config))
    /\ config' = {get_config(config)}
    /\ UNCHANGED <<chainVars, payloadVars, stress_result, verdict_result, tools_result,
                   check_result, strengths, verdict_built, last_call, env, prev_cached, got, lateVars>>

\* a recorded call: the tool, the names of the arguments passed as the empty
\* string, and what the tool returned
Call(tool, args, out) ==
    [tool |-> tool, empty |-> {a \in DOMAIN args : IsEmptyStr(args[a])}, out |-> out]

\* server.inject_logic_bridge(query, data_json, claim_json)
CallInjectLogicBridge ==
    /\ \E d \in ServerArgs, c \in ServerArgs :
          last_call' = {Call("inject_logic_bridge", [data |-> d, claim |-> c],
                             inject_logic_bridge(d, c))}
    /\ UNCHANGED <<chainVars, payloadVars, serverVars, tools_result, check_result,
                   strengths, sweep_result, verdict_built, env, prev_cached, got, lateVars>>

\* server.stress_test_argument(...) with any warrant and backing text
CallStressTest ==
    /\ \E d \in ServerArgs, c \in ServerArgs, w \in WarrantPayloads, b \in BackingPayloads :
          last_call' = {Call("stress_test_argument",
                             [data |-> d, claim |-> c, warrant |-> w.json, backing |-> b.json],
                             stress_test_argument(d, c, w, b, get_config(config)))}
    /\ config' = {get_config(config)}
    /\ UNCHANGED <<chainVars, payloadVars, stress_result, verdict_result, tools_result,
                   check_result, strengths, sweep_result, verdict_built, env, prev_cached, got, lateVars>>

\* server.render_verdict(...) with any warrant and backing text
CallRenderVerdict ==
    /\ \E d \in ServerArgs, c \in ServerArgs, r \in ServerArgs, q \in ServerArgs,
          w \in WarrantPayloads, b \in BackingPayloads :
          last_call' = {Call("render_verdict",
                             [data |-> d, claim |-> c, warrant |-> w.json, backing |-> b.json,
                              rebuttal |-> r, qualifier |-> q],
                             render_verdict(d, c, w, b, r, q, get_config(config)))}
    /\ config' = {get_config(config)}
    /\ UNCHANGED <<chainVars, payloadVars, stress_result, verdict_result, tools_result,
                   check_result, strengths, sweep_result, verdict_built, env, prev_cached, got, lateVars>>

\* server.format_analysis_report(query, data_json, ..., verdict_json)
CallFormatAnalysisReport ==
    /\ \E d \in ServerArgs, c \in ServerArgs, w \in ServerArgs, b \in ServerArgs,
          r \in ServerArgs, q \in ServerArgs, v \in ServerArgs :
          last_call' = {Call("format_analysis_report",
                             [data |-> d, claim |-> c, warrant |-> w, backing |-> b,
                              rebuttal |-> r, qualifier |-> q, verdict |-> v],
                             format_analysis_report(d, c, w, b, r, q, v))}
    /\ UNCHANGED <<chainVars, payloadVars, serverVars, tools_result, check_result,
                   strengths, sweep_result, verdict_built, env, prev_cached, got, lateVars>>

\* server.consult_field_experts(query, perspectives): the tool does not call get_config
CallConsultFieldExperts ==
    /\ \E n \in 0..2 :
          last_call' = {Call("consult_field_experts",
                             [perspectives |-> IF n = 0 THEN "empty" ELSE "object"],
                             consult_field_experts(n))}
    /\ UNCHANGED <<chainVars, payloadVars, serverVars, tools_result, check_result,
                   strengths, sweep_result, verdict_built, env, prev_cached, got, lateVars>>

\* config = get_config() in the caller: the cached instance, or a new one that
\* is cached from now on; `same` tells whether it is the instance the caller's
\* previous get_config() returned
\* slip: the new Config cached before its log level is validated
GetConfig_CachesBeforeValidation ==
    /\ IF get_config_raises(config)
       THEN /\ config_error' = ConfigError("ConfigurationError", "", ConfigFromEnv.log_level)
            /\ config' = {ConfigFromEnv}
            /\ UNCHANGED <<got, prev_cached>>
       ELSE /\ config_error' = NoConfigError
            /\ got' = {[cfg |-> get_config(config), same |-> (config # {} /\ prev_cached)]}
            /\ config' = {get_config(config)}
            /\ prev_cached' = TRUE
    /\ UNCHANGED <<chainVars, payloadVars, stress_result, verdict_result, tools_result,
                   check_result, strengths, sweep_result, verdict_built, last_call, env, parsed, bridge, table>>

\* a call that raises ConfigurationError returns nothing and caches nothing
GetConfig ==
    /\ IF get_config_raises(config)
       THEN /\ config_error' = ConfigError("ConfigurationError", "", ConfigFromEnv.log_level)
            /\ UNCHANGED <<config, got, prev_cached>>
       ELSE /\ config_error' = NoConfigError
            /\ got' = {[cfg |-> get_config(config), same |-> (config # {} /\ prev_cached)]}
            /\ config' = {get_config(config)}
            /\ prev_cached' = TRUE
    /\ UNCHANGED <<chainVars, payloadVars, stress_result, verdict_result, tools_result,
                   check_result, strengths, sweep_result, verdict_built, last_call, env, parsed, bridge, table>>

\* os.environ[name] = raw, or del os.environ[name]: the cache is not touched
SetEnv ==
    /\ \E key \in ConfigKeys, raw \in EnvValues : env' = [env EXCEPT ![key] = raw]
    /\ UNCHANGED <<chainVars, payloadVars, serverVars, tools_result, check_result,
                   strengths, sweep_result, verdict_built, last_call, prev_cached, got, lateVars>>

\* raw texts of a boolean TOULMINI_* variable
FlagRaws == {"unset", "", " ", "0", "1", "00", "false", "False", "FALSE", "no", "No", " NO ", "off", "Off", " OFF", "off\t", "true", "yes", "on", "maybe", "of", "n o"}

\* _get_env_bool(name, default) as get_config calls it for one flag
ResolveFlag ==
    /\ \E name \in BoolFlags, raw \in FlagRaws :
          parsed' = {[name |-> name, raw |-> raw, value |-> _get_env_bool(raw, DefaultConfig[name])]}
    /\ UNCHANGED <<chainVars, payloadVars, serverVars, tools_result, check_result, extVars, config_error, bridge, table>>

\* raw texts of TOULMINI_LOG_LEVEL
LogLevelRaws == {"unset", "debug", "Info", "WARNING", "critical", "verbose", " info", ""}

\* os.environ["TOULMINI_LOG_LEVEL"] = raw, or its deletion
SetEnvLogLevel ==
    /\ \E raw \in LogLevelRaws : env' = [env EXCEPT !.log_level = raw]
    /\ UNCHANGED <<chainVars, payloadVars, serverVars, tools_result, check_result,
                   strengths, sweep_result, verdict_built, last_call, prev_cached, got, lateVars>>

\* Verdict(outcome=..., reasoning=..., final_statement=...)
BuildVerdict ==
    /\ \E v \in VerdictInputs :
          verdict_built' = {[input |-> v, result |-> Verdict_validate(v)]}
    /\ UNCHANGED <<chainVars, payloadVars, serverVars, tools_result, check_result,
                   strengths, sweep_result, last_call, env, prev_cached, got, lateVars>>

\* tools.stress_test_argument(data_json, claim_json, warrant_json, backing_json, query)
ToolsStressTest ==
    /\ \E d \in OtherArgs, c \in OtherArgs :
          tools_result' = tools_stress_test_argument(d, c, warrant_json, backing_json)
    /\ UNCHANGED <<chainVars, payloadVars, serverVars, check_result, extVars, lateVars>>

\* tools.render_verdict(data_json, ..., qualifier_json, query)
ToolsRenderVerdict ==
    /\ \E d \in OtherArgs, c \in OtherArgs, r \in OtherArgs, q \in OtherArgs :
          tools_result' = tools_render_verdict(d, c, warrant_json, backing_json, r, q)
    /\ UNCHANGED <<chainVars, payloadVars, serverVars, check_result, extVars, lateVars>>

\* the chain state machine
Next == ConstructChain \/ SubmitComponent

Spec == Init /\ [][Next]_vars

\* a chain grown by submissions, with attribute assignment as a mutation path
NextAssign == SubmitComponent \/ AssignSlot

SpecAssign == Init /\ [][NextAssign]_vars

\* the sweep over a chain grown in any order of submissions, under changing flags
NextSweep == SubmitWithStrength \/ RunLogicChecks \/ SetConfigValue

SpecSweep == Init /\ [][NextSweep]_vars

\* the server's phase tools called with any combination of empty arguments
NextPhaseTools ==
    \/ CallInjectLogicBridge
    \/ CallStressTest
    \/ CallRenderVerdict
    \/ CallFormatAnalysisReport

SpecPhaseTools == Init /\ [][NextPhaseTools]_vars

\* the council helper under a configuration set by the environment or by override
NextCouncil == CallConsultFieldExperts \/ SetEnv \/ SetConfigValue \/ ResetConfig

SpecCouncil == Init /\ [][NextCouncil]_vars

\* the configuration singleton under a changing environment
NextEnv == GetConfig \/ SetEnv \/ ResetConfig

SpecEnv == Init /\ [][NextEnv]_vars

\* the same with programmatic overrides
NextConfig == GetConfig \/ SetEnv \/ SetConfigValue \/ ResetConfig

SpecConfig == Init /\ [][NextConfig]_vars

\* the Verdict schema
NextVerdict == BuildVerdict

SpecVerdict == Init /\ [][NextVerdict]_vars

\* the MCP server's phase tools under the policy flags
NextServer ==
    \/ ProduceWarrant
    \/ ProduceBacking
    \/ ServerStressTest
    \/ ServerRenderVerdict
    \/ SetConfigValue
    \/ ResetConfig

SpecServer == Init /\ [][NextServer]_vars

\* the tools-module variant of the pipeline
NextTools == ProduceWarrant \/ ProduceBacking \/ ToolsStressTest \/ ToolsRenderVerdict

SpecTools == Init /\ [][NextTools]_vars

\* the components' logic checks called directly, under changing flags
NextBreaker ==
    \/ WarrantLogicCheck
    \/ BackingLogicCheck
    \/ RebuttalLogicCheck
    \/ SetConfigValue
    \/ ResetConfig

SpecBreaker == Init /\ [][NextBreaker]_vars

TypeOK ==
    /\ chain \in ChainRecords
    /\ attempt \subseteq Slots
    /\ op \in {"init", "construct", "submit", "assign"}
    /\ submitted \in Slots \cup {""}

(***************************************************************************)
(* Properties of the chain state machine                                   *)
(***************************************************************************)
\* the six dependency invariants of the data model, over a set of populated slots
DependencyInvariants(P) ==
    /\ "claim" \in P => "data" \in P
    /\ "warrant" \in P => "claim" \in P
    /\ "backing" \in P => "warrant" \in P
    /\ "rebuttal" \in P => "backing" \in P
    /\ "qualifier" \in P => "rebuttal" \in P
    /\ "verdict" \in P => (Slots \ {"verdict"}) \subseteq P

\* C1: every chain that construction accepts satisfies the six dependency
\* invariants, and every combination of populated slots that violates one of
\* them is rejected (the caller's chain stays as it was, an error is raised).
C1_AcceptedChainsSatisfyDependencies ==
    /\ DependencyInvariants(Populated(chain))
    /\ op # "init" =>
          /\ chain_error.raised <=> ~DependencyInvariants(attempt)
          /\ ~chain_error.raised => Populated(chain) = attempt

C1_Witness ==
    /\ op = "construct"
    /\ attempt = {"data", "claim", "warrant", "verdict"}
    /\ chain_error.raised
    /\ Populated(chain) = {"data", "claim"}

\* the prerequisites a submission of `slot` needs
Prerequisites(slot) ==
    CASE slot = "data" -> {}
      [] slot = "claim" -> {"data"}
      [] slot = "warrant" -> {"claim"}
      [] slot = "backing" -> {"warrant"}
      [] slot = "rebuttal" -> {"backing"}
      [] slot = "qualifier" -> {"rebuttal"}
      [] slot = "verdict" -> Slots \ {"verdict"}

ComponentName(slot) ==
    CASE slot = "data" -> "Data"
      [] slot = "claim" -> "Claim"
      [] slot = "warrant" -> "Warrant"
      [] slot = "backing" -> "Backing"
      [] slot = "rebuttal" -> "Rebuttal"
      [] slot = "qualifier" -> "Qualifier"
      [] slot = "verdict" -> "Verdict"

RECURSIVE NamesInOrder(_, _)
\* the names of the slots of S, in canonical order, from position i on
NamesInOrder(S, i) ==
    IF i > Len(SlotNames) THEN <<>>
    ELSE (IF SlotNames[i] \in S THEN <<ComponentName(SlotNames[i])>> ELSE <<>>)
         \o NamesInOrder(S, i + 1)

\* C2: submitting a component whose prerequisite slot is empty raises a
\* dependency error that names the submitted component and carries the names of
\* its missing prerequisites, and the chain never gets the component set.
C2_MissingPrerequisiteRejected ==
    (op = "submit" /\ Prerequisites(submitted) \ attempt # {}) =>
        /\ chain_error.raised
        /\ chain_error.phase = submitted
        /\ chain_error.missing = NamesInOrder(Prerequisites(submitted) \ attempt, 1)
        /\ chain[submitted] = {}

C2_Witness ==
    /\ op = "submit"
    /\ submitted = "backing"
    /\ Populated(chain) = {"data", "claim"}
    /\ chain_error = ChainValidationError("backing", <<"Warrant">>)

\* C3 as stated: phase 4 iff Verdict; 3 iff Rebuttal and Qualifier without
\* Verdict; 2 iff Warrant and Backing without Rebuttal; 1 iff Data and Claim
\* without Warrant; 0 for every other combination.
C3_PhaseAsStated ==
    LET P == Populated(chain) IN
    current_phase(chain) =
        IF "verdict" \in P THEN 4
        ELSE IF {"rebuttal", "qualifier"} \subseteq P THEN 3
        ELSE IF {"warrant", "backing"} \subseteq P /\ "rebuttal" \notin P THEN 2
        ELSE IF {"data", "claim"} \subseteq P /\ "warrant" \notin P THEN 1
        ELSE 0

\* C3 amended: for every accepted chain the phase is 4 iff Verdict is present;
\* 3 iff Rebuttal and Qualifier are present and Verdict is absent; 2 iff Warrant
\* and Backing are present and Qualifier is absent; 1 iff Data and Claim are
\* present and Backing is absent; 0 for every other combination.
C3_PhaseOfAcceptedChain ==
    LET P == Populated(chain)
        ph == current_phase(chain) IN
    /\ ph = 4 <=> "verdict" \in P
    /\ ph = 3 <=> ({"rebuttal", "qualifier"} \subseteq P /\ "verdict" \notin P)
    /\ ph = 2 <=> ({"warrant", "backing"} \subseteq P /\ "qualifier" \notin P)
    /\ ph = 1 <=> ({"data", "claim"} \subseteq P /\ "backing" \notin P)
    /\ ph = 0 <=> ~({"data", "claim"} \subseteq P)

C3_Witness ==
    /\ Populated(chain) = {"data", "claim", "warrant", "backing", "rebuttal"}
    /\ current_phase(chain) = 2

\* C4: the phase never decreases from one accepted submission to the next, and
\* phase = 4 exactly when Verdict is present, exactly when is_complete holds.
C4_PhaseMonotoneAndComplete ==
    /\ [](/\ current_phase(chain) = 4 <=> chain.verdict # {}
          /\ chain.verdict # {} <=> is_complete(chain)
          /\ current_phase(chain) \in 0..4)
    /\ [][(op' = "submit" /\ ~chain_error'.raised)
             => current_phase(chain') >= current_phase(chain)]_vars

C4_Witness ==
    /\ op = "submit"
    /\ submitted = "verdict"
    /\ ~chain_error.raised
    /\ current_phase(chain) = 4
    /\ is_complete(chain)

C12_InvariantsUnderEveryMutation ==
    /\ DependencyInvariants(Populated(chain))
    /\ (op = "assign" /\ ~DependencyInvariants(attempt)) => chain_error.raised
    /\ current_phase(chain) = 4 => Populated(chain) = Slots

(***************************************************************************)
(* Properties of the circuit breaker and the phase tools                   *)
(***************************************************************************)
\* the flags the last server call ran under (every call fills the cache)
CurrentConfig == get_config(config)

\* a warrant payload that is a Warrant in every respect other than its strength
WellFormedWarrant(w) ==
    /\ w.json = "object"
    /\ w.principle_len >= WarrantPrincipleMinLen
    /\ w.principle_len <= WarrantPrincipleMaxLen
    /\ w.general \/ w.principle_len >= WarrantGeneralPresumedLen
    /\ w.logic_type \in LogicType
    /\ w.strength \in StrengthLevel

\* a backing payload that is a Backing in every respect other than its strength
WellFormedBacking(b) ==
    /\ b.json = "object"
    /\ b.authority_len >= BackingAuthorityMinLen
    /\ b.authority_len <= BackingAuthorityMaxLen
    /\ b.citations >= BackingCitationsMin
    /\ b.strength \in StrengthLevel

IsWeak(strength) == strength \in {"weak", "irrelevant"}

\* stress_test_argument was called with every argument non-empty
StressTestRan == stress_result.out \notin {"NONE", "MISSING_COMPONENTS"}

\* C5: with strict_mode and the component's fail flag, a weak or irrelevant
\* Warrant or Backing is rejected by stress_test_argument as TERMINATION_SIGNAL
\* with WARRANT REJECTED / BACKING REJECTED and the strength value, and the
\* phase-3 prompt is not returned.
C5_WeakRejectedAsTermination ==
    (StressTestRan /\ CurrentConfig.strict_mode
        /\ WellFormedWarrant(warrant_json) /\ WellFormedBacking(backing_json)) =>
        /\ (CurrentConfig.fail_on_weak_warrant /\ IsWeak(warrant_json.strength)) =>
              stress_result =
                  ErrorJson("TERMINATION_SIGNAL", "WARRANT REJECTED", warrant_json.strength, <<>>)
        /\ (CurrentConfig.fail_on_weak_backing /\ IsWeak(backing_json.strength)
              /\ ~IsWeak(warrant_json.strength)) =>
              stress_result =
                  ErrorJson("TERMINATION_SIGNAL", "BACKING REJECTED", backing_json.strength, <<>>)

\* C6: with strict_mode off, a weak or irrelevant Warrant or Backing is accepted
\* whatever the fail flags: stress_test_argument returns the phase-3 prompt.
C6_StrictOffAcceptsWeak ==
    (StressTestRan /\ ~CurrentConfig.strict_mode
        /\ WellFormedWarrant(warrant_json) /\ WellFormedBacking(backing_json)
        /\ (IsWeak(warrant_json.strength) \/ IsWeak(backing_json.strength))) =>
        stress_result = Prompt("PROMPT_PHASE_3")

\* C7: with strict_mode on, each fail flag gates only its own component: on
\* payloads of strength strong or weak, stress_test_argument returns the prompt
\* exactly when neither a weak Warrant is gated by fail_on_weak_warrant nor a
\* weak Backing by fail_on_weak_backing.
C7_FlagsGateOwnComponent ==
    (StressTestRan /\ CurrentConfig.strict_mode
        /\ WellFormedWarrant(warrant_json) /\ WellFormedBacking(backing_json)
        /\ warrant_json.strength \in {"strong", "weak"}
        /\ backing_json.strength \in {"strong", "weak"}) =>
        (stress_result = Prompt("PROMPT_PHASE_3") <=>
            /\ ~(CurrentConfig.fail_on_weak_warrant /\ warrant_json.strength = "weak")
            /\ ~(CurrentConfig.fail_on_weak_backing /\ backing_json.strength = "weak"))

\* C8: a Rebuttal of strength "absolute" is rejected by its logic check
\* (REBUTTAL FATAL) under every combination of the flags; a Rebuttal of any
\* other strength passes.
C8_AbsoluteRebuttalFatal ==
    check_result.component = "rebuttal" =>
        IF check_result.strength = "absolute"
        THEN check_result.exc = "ValueError" /\ check_result.reason = "REBUTTAL FATAL"
        ELSE check_result.exc = ""

C8_Witness ==
    /\ check_result = [component |-> "rebuttal", strength |-> "absolute",
                       exc |-> "ValueError", reason |-> "REBUTTAL FATAL"]
    /\ config # {}
    /\ ~CurrentConfig.strict_mode
    /\ ~CurrentConfig.fail_on_weak_warrant
    /\ ~CurrentConfig.fail_on_weak_backing

\* C9: for the same warrant/backing pair and flags, with the other arguments
\* non-empty, render_verdict returns the breaker's error whenever
\* stress_test_argument returns one; the phase-4 prompt is only returned for a
\* pair for which stress_test_argument returns the phase-3 prompt.
C9_VerdictRevalidates ==
    LET breakerErrors == {"TERMINATION_SIGNAL", "VALIDATION_ERROR"} IN
    /\ (stress_result.out \in breakerErrors
          /\ verdict_result.out \notin {"NONE", "INCOMPLETE_CHAIN"}) =>
          verdict_result = stress_result
    /\ verdict_result.out = "PROMPT_PHASE_4" =>
          stress_test_argument("object", "object", warrant_json, backing_json, CurrentConfig)
              = Prompt("PROMPT_PHASE_3")

C9_Witness ==
    /\ WellFormedWarrant(warrant_json)
    /\ backing_json.strength = "weak"
    /\ stress_result.out = "VALIDATION_ERROR"
    /\ verdict_result = stress_result

\* the populated slots whose component fails its logic check under cfg
FailingSlots(st, cfg) ==
    {slot \in BreakerSlots :
        \E x \in st[slot] : Component_logic_check(slot, x, cfg).exc # ""}

\* C13: construction does not run the breaker (it rejects for dependency
\* reasons only, so a chain can hold a weak Warrant), and run_logic_checks
\* raises iff at least one populated Warrant, Backing or Rebuttal fails its
\* check under the current flags, whatever the order of submission; the
\* component it names is one that fails.
C13_SweepRejectsIffSomeCheckFails ==
    [][/\ SubmitWithStrength =>
             (chain_error'.raised <=> ~DependencyInvariants(attempt'))
       /\ RunLogicChecks =>
             /\ sweep_result'.exc # "" <=> FailingSlots(strengths, get_config(config')) # {}
             /\ sweep_result'.exc # "" =>
                   sweep_result'.component \in FailingSlots(strengths, get_config(config'))
             /\ sweep_result'.exc = "" => sweep_result'.component = "chain"]_vars

C13_Witness ==
    /\ chain.warrant # {}
    /\ chain.rebuttal # {}
    /\ strengths.warrant = {"weak"}
    /\ strengths.rebuttal = {"strong"}
    /\ CurrentConfig.strict_mode /\ CurrentConfig.fail_on_weak_warrant
    /\ sweep_result = [component |-> "warrant", strength |-> "weak",
                       exc |-> "ValueError", reason |-> "WARRANT REJECTED"]

\* the result a verdict declares: sustained is the outcome STANDS, overruled FALLS
DeclaredStatus(v) ==
    IF v.status # "" THEN v.status
    ELSE CASE v.outcome = "STANDS" -> "sustained"
           [] v.outcome = "FALLS" -> "overruled"
           [] OTHER -> ""

\* the reasoning holds a word of the opposite outcome's lexicon
VerdictInconsistent(v) ==
    \/ DeclaredStatus(v) = "sustained" /\ v.words \cap {"fails", "rejected"} # {}
    \/ DeclaredStatus(v) = "overruled" /\ v.words \cap {"succeeds", "sustained"} # {}

\* C14: a Verdict whose reasoning holds a word of the opposite outcome's
\* lexicon is rejected with a validation error VERDICT INCONSISTENT; a Verdict
\* without such a word that meets the other field constraints is accepted.
C14_InconsistentVerdictRejected ==
    \A b \in verdict_built :
        LET v == b.input IN
        DeclaredStatus(v) # "" =>
            /\ VerdictInconsistent(v) =>
                  /\ b.result.exc = "ValidationError"
                  /\ b.result.reason = "VERDICT INCONSISTENT"
            /\ (/\ ~VerdictInconsistent(v)
                /\ v.reasoning_len >= VerdictReasoningMinLen
                /\ v.mentioned >= VerdictMentionedMin
                /\ v.final_len >= VerdictFinalStatementMinLen) => b.result.exc = ""

\* the warrant payload fails structural or field-level validation, its strength aside
WarrantStructuralFailure(w) ==
    \/ w.json # "object"
    \/ w.principle_len < WarrantPrincipleMinLen
    \/ w.principle_len > WarrantPrincipleMaxLen
    \/ ~(w.general \/ w.principle_len >= WarrantGeneralPresumedLen)
    \/ w.logic_type \notin LogicType

\* the backing payload fails structural or field-level validation, its strength aside
BackingStructuralFailure(b) ==
    \/ b.json # "object"
    \/ b.authority_len < BackingAuthorityMinLen
    \/ b.authority_len > BackingAuthorityMaxLen
    \/ b.citations < BackingCitationsMin

\* the tool got past its missing-argument check
BreakerRan(r) == r.out \notin {"NONE", "MISSING_COMPONENTS", "INCOMPLETE_CHAIN"}

\* C15: stress_test_argument and render_verdict report TERMINATION_SIGNAL only
\* for a structurally valid Warrant or Backing rejected on strength grounds; a
\* payload that fails structural or field-level validation is reported as a
\* different error kind, and in neither case is the phase prompt returned.
C15_TerminationOnlyForStrength ==
    \A r \in {stress_result, verdict_result} :
        /\ r.out = "TERMINATION_SIGNAL" =>
              \/ ~WarrantStructuralFailure(warrant_json) /\ IsWeak(warrant_json.strength)
              \/ /\ ~WarrantStructuralFailure(warrant_json)
                 /\ ~BackingStructuralFailure(backing_json)
                 /\ IsWeak(backing_json.strength)
        /\ (BreakerRan(r) /\ (\/ WarrantStructuralFailure(warrant_json)
                              \/ BackingStructuralFailure(backing_json))) =>
              r.out \notin {"TERMINATION_SIGNAL", "PROMPT_PHASE_3", "PROMPT_PHASE_4"}

RECURSIVE ArgsInOrder(_, _)
\* the argument names of S in the order the tools test them, from position i on
ArgsInOrder(S, i) ==
    IF i > Len(SlotNames) THEN <<>>
    ELSE (IF SlotNames[i] \in S THEN <<SlotNames[i]>> ELSE <<>>) \o ArgsInOrder(S, i + 1)

\* C16: each server phase tool returns its prompt only when all of its required
\* arguments are non-empty: inject_logic_bridge returns MISSING_PHASE_1_OUTPUT
\* if data or claim is empty; stress_test_argument returns MISSING_COMPONENTS
\* listing exactly the empty arguments; render_verdict and
\* format_analysis_report return INCOMPLETE_CHAIN if any argument is empty.
C16_PromptOnlyWithAllArguments ==
    \A k \in last_call :
        /\ k.tool = "inject_logic_bridge" =>
              k.out = IF k.empty # {} THEN ErrorJson("MISSING_PHASE_1_OUTPUT", "", "", <<>>)
                      ELSE Prompt("PROMPT_PHASE_2")
        /\ k.tool = "stress_test_argument" =>
              /\ k.empty # {} =>
                    k.out = ErrorJson("MISSING_COMPONENTS", "", "", ArgsInOrder(k.empty, 1))
              /\ k.empty = {} => k.out.out # "MISSING_COMPONENTS"
        /\ k.tool = "render_verdict" =>
              (k.empty # {} <=> k.out = ErrorJson("INCOMPLETE_CHAIN", "", "", <<>>))
        /\ k.tool = "format_analysis_report" =>
              k.out = IF k.empty # {} THEN ErrorJson("INCOMPLETE_CHAIN", "", "", <<>>)
                      ELSE Prompt("PROMPT_FORMAT_REPORT")
        /\ k.out.out \in {"PROMPT_PHASE_2", "PROMPT_PHASE_3", "PROMPT_PHASE_4",
                          "PROMPT_FORMAT_REPORT"} => k.empty = {}

C16_Witness ==
    \E k \in last_call :
        /\ k.tool = "stress_test_argument"
        /\ k.empty = {"warrant", "backing"}
        /\ k.out = ErrorJson("MISSING_COMPONENTS", "", "", <<"warrant", "backing">>)

\* C17: when enable_council is false consult_field_experts returns
\* {"error": "COUNCIL_DISABLED"} for every list of perspectives and never the
\* council prompt; when it is true, a non-empty list gets the prompt.
C17_CouncilRespectsConfig ==
    [][CallConsultFieldExperts =>
          \A k \in last_call' :
              IF ~get_config(config).enable_council
              THEN k.out = ErrorJson("COUNCIL_DISABLED", "", "", <<>>)
              ELSE k.empty = {} => k.out = Prompt("PROMPT_CONSULT_EXPERTS")]_vars

\* C19: between two reset_config calls every get_config call returns the same
\* Config instance with the values the previous call returned, whatever was
\* done to the environment in between; the first get_config after a
\* reset_config returns a different instance whose values are read from the
\* environment.
C19_ConfigCachedUntilReset ==
    [][GetConfig =>
          \A g \in got' :
              IF prev_cached
              THEN g.same /\ \A g0 \in got : g.cfg = g0.cfg
              ELSE ~g.same /\ g.cfg = ConfigFromEnv]_vars

C19_Witness ==
    \E g \in got :
        /\ g.same
        /\ g.cfg.strict_mode
        /\ env.strict_mode = " OFF"
        /\ ~ConfigFromEnv.strict_mode
        /\ config = {g.cfg}

C21_UnknownKeyAlwaysAttributeError ==
    [][\A key \in AttrKeys \ ConfigAttrs :
          (\E v \in AttrValues(key) : set_config_value(key, v)) =>
              /\ config_error' = ConfigError("AttributeError", key, <<>>)
              /\ get_config(config') = get_config(config)]_vars

\* C21: when get_config can deliver a Config (one is cached, or the
\* environment's log level is valid), set_config_value with a key that is no
\* attribute of Config raises AttributeError naming the key, and the values
\* get_config returns are the same before and after; when get_config raises,
\* set_config_value raises that ConfigurationError instead and caches nothing
C21_UnknownKeyRaisesAndChangesNothing ==
    [][\A key \in AttrKeys \ ConfigAttrs :
          (\E v \in AttrValues(key) : set_config_value(key, v)) =>
              IF get_config_raises(config)
              THEN config_error'.exc = "ConfigurationError" /\ config' = {}
              ELSE /\ config_error' = ConfigError("AttributeError", key, <<>>)
                   /\ ~get_config_raises(config')
                   /\ get_config(config') = get_config(config)]_vars

\* an unknown key was reported while an override of strict_mode and of
\* log_level is in the cache
C21_Witness ==
    /\ config_error = ConfigError("AttributeError", "invalid_key_that_does_not_exist", <<>>)
    /\ \E c \in config : ~c.strict_mode /\ c.log_level = Text("ERROR")

\* the level each raw text of TOULMINI_LOG_LEVEL stands for, <<>> for none
LevelNamed(raw) ==
    CASE raw \in {"unset", "Info"} -> <<"I", "N", "F", "O">>
      [] raw = "debug" -> <<"D", "E", "B", "U", "G">>
      [] raw = "WARNING" -> <<"W", "A", "R", "N", "I", "N", "G">>
      [] raw = "critical" -> <<"C", "R", "I", "T", "I", "C", "A", "L">>
      [] OTHER -> <<>>

\* C22 as stated: every get_config call raises ConfigurationError when the
\* upper-cased TOULMINI_LOG_LEVEL is none of the five levels, and otherwise
\* returns a Config whose log_level is the upper-cased value, INFO when unset
C22_EveryCallValidatesLogLevel ==
    [][GetConfig =>
          IF LevelNamed(env.log_level) = <<>>
          THEN config_error'.exc = "ConfigurationError"
          ELSE /\ config_error' = NoConfigError
               /\ \A g \in got' : g.cfg.log_level = LevelNamed(env.log_level)]_vars

\* C22: a get_config call that finds the cache empty raises
\* ConfigurationError when the upper-cased TOULMINI_LOG_LEVEL is none of the
\* five levels, and otherwise returns a Config whose log_level is the
\* upper-cased value, INFO when unset; a call that finds a cached Config
\* returns it without reading the environment and without raising
C22_NewConfigValidatesLogLevel ==
    [][GetConfig =>
          IF config # {}
          THEN config_error' = NoConfigError /\ \A g \in got' : config = {g.cfg}
          ELSE IF LevelNamed(env.log_level) = <<>>
               THEN /\ config_error'.exc = "ConfigurationError"
                    /\ config_error'.level \notin valid_log_levels
                    /\ got' = got
               ELSE /\ config_error' = NoConfigError
                    /\ \A g \in got' : g.cfg.log_level = LevelNamed(env.log_level)]_vars

\* get_config returned the level CRITICAL for the raw text "critical"
C22_Witness ==
    /\ env.log_level = "critical"
    /\ config_error = NoConfigError
    /\ \E g \in got : ~g.same /\ g.cfg.log_level = <<"C", "R", "I", "T", "I", "C", "A", "L">>

SlotPosition(slot) == CHOOSE i \in 1..Len(SlotNames) : SlotNames[i] = slot

\* the populated slots of P whose dependency is violated
ViolatedSlots(P) == {slot \in P : Prerequisites(slot) \ P # {}}

\* P is the first k slots of the canonical order, for some k
IsPrefix(P) == \E k \in 0..Len(SlotNames) : P = {SlotNames[i] : i \in 1..k}

\* C26: a rejection reports the earliest violated dependency in the order
\* claim, warrant, backing, rebuttal, qualifier, verdict; so a Verdict
\* rejection is reported only when the components populated before the
\* Verdict are a prefix of Data..Qualifier, and its missing list is the rest
\* of that order, not empty and in canonical order.
C26_EarliestViolationReported ==
    /\ chain_error.raised <=> ViolatedSlots(attempt) # {}
    /\ chain_error.raised =>
          /\ chain_error.phase \in ViolatedSlots(attempt)
          /\ \A slot \in ViolatedSlots(attempt) :
                SlotPosition(chain_error.phase) <= SlotPosition(slot)
    /\ (chain_error.raised /\ chain_error.phase = "verdict") =>
          LET prior == attempt \ {"verdict"} IN
          /\ IsPrefix(prior)
          /\ prior # Slots \ {"verdict"}
          /\ chain_error.missing = NamesInOrder(Slots \ attempt, 1)
          /\ chain_error.missing =
                [i \in 1..(6 - Cardinality(prior)) |-> ComponentName(SlotNames[Cardinality(prior) + i])]

\* a Verdict submitted to a chain of Data and Claim: the four components after
\* Claim are reported missing
C26_Witness ==
    /\ op = "submit"
    /\ submitted = "verdict"
    /\ attempt = {"data", "claim", "verdict"}
    /\ chain_error = ChainValidationError("verdict", <<"Warrant", "Backing", "Rebuttal", "Qualifier">>)

\* the slots of the components of phases 1..k
SlotsUpToPhase(k) ==
    CASE k = 0 -> {}
      [] k = 1 -> {"data", "claim"}
      [] k = 2 -> {"data", "claim", "warrant", "backing"}
      [] k = 3 -> {"data", "claim", "warrant", "backing", "rebuttal", "qualifier"}
      [] k = 4 -> Slots

\* C27: in every accepted chain a phase of k (1..4) means that every
\* component of the phases 1..k is present, and the populated slots are a
\* prefix of the canonical order Data, Claim, Warrant, Backing, Rebuttal,
\* Qualifier, Verdict.
C27_PhaseImpliesPrefix ==
    /\ current_phase(chain) \in 0..4
    /\ SlotsUpToPhase(current_phase(chain)) \subseteq Populated(chain)
    /\ IsPrefix(Populated(chain))

\* an accepted chain of phase 1 that holds a Warrant and no Backing yet
C27_Witness ==
    /\ ~chain_error.raised
    /\ op = "submit"
    /\ Populated(chain) = {"data", "claim", "warrant"}
    /\ current_phase(chain) = 1

\* C28: after any sequence of get_config, set_config_value and reset_config
\* calls, the log_level of the Config that get_config returns is one of DEBUG,
\* INFO, WARNING, ERROR, CRITICAL.
C28_ReturnedLogLevelValid ==
    /\ \A g \in got : g.cfg.log_level \in valid_log_levels
    /\ \A c \in config : c.log_level \in valid_log_levels

NextLogEnv == GetConfig \/ SetEnvLogLevel \/ ResetConfig

SpecLogEnv == Init /\ [][NextLogEnv]_vars

\* C29: a get_config call that raises ConfigurationError leaves the cache
\* empty; the next get_config call made once the environment names a valid
\* level succeeds, with no reset_config in between, and returns that level;
\* and no Config holding an invalid log level is returned or cached.
C29_FailedCallCachesNothing ==
    [][GetConfig =>
          /\ config_error'.exc = "ConfigurationError" =>
                (config = {} /\ config' = {} /\ got' = got)
          /\ (config_error.exc = "ConfigurationError" /\ LevelNamed(env.log_level) # <<>>) =>
                /\ config_error' = NoConfigError
                /\ \A g \in got' : ~g.same /\ g.cfg.log_level = LevelNamed(env.log_level)
                /\ \A g \in got' : config' = {g.cfg}
          /\ \A g \in got' : g.cfg.log_level \in valid_log_levels
          /\ \A c \in config' : c.log_level \in valid_log_levels]_vars

\* get_config has raised for " info", the cache is empty, and the environment
\* has been corrected to "debug" since
C29_Witness ==
    /\ config_error = ConfigError("ConfigurationError", "", <<" ", "I", "N", "F", "O">>)
    /\ config = {}
    /\ env.log_level = "debug"

NextTable == RenderTable

SpecTable == Init /\ [][NextTable]_vars

\* the length of the text a row renders
TextLength(texts, field) ==
    IF field \in {"facts", "edge_cases"} THEN JoinFirstTwo(texts[field]) ELSE texts[field]

\* C30: in to_markdown_table every rendered free-text value (the joined
\* facts, the claim statement, the warrant principle, the backing authority,
\* the joined edge cases and the verdict's final statement) is at most 80
\* characters plus the three of the ellipsis, carries the ellipsis when its
\* text is longer than 80 characters, and is the text itself, without an
\* ellipsis, when the text has at most 80 characters.
C30_EveryTextTruncated ==
    \A t \in table : \A field \in TableFields :
        /\ t.rows[field].len <= 80 + 3
        /\ IF TextLength(t.texts, field) <= 80
           THEN t.rows[field] = Rendered(TextLength(t.texts, field), FALSE)
           ELSE t.rows[field].ellipsis

NextBridge ==
    \/ BridgeEnter
    \/ WarrantReadStrict
    \/ WarrantDecide
    \/ BackingReadStrict
    \/ BackingDecide
    \/ BridgeConcurrentSet
    \/ BridgeSetBetweenCalls

SpecBridge == Init /\ [][NextBridge]_vars

NextFlags == ResolveFlag

SpecFlags == Init /\ [][NextFlags]_vars

\* the raw texts whose trimmed, lower-cased form is 0, false, no or off
FalseRaws == {"0", "false", "False", "FALSE", "no", "No", " NO ", "off", "Off", " OFF", "off\t"}

\* C23: a boolean flag resolves to its default when its variable is unset
\* (true for enable_council, strict_mode, fail_on_weak_warrant and
\* fail_on_weak_backing, false for debug), to false when the trimmed,
\* lower-cased text is 0, false, no or off, and to true for every other text,
\* the empty one included
C23_FlagResolution ==
    \A p \in parsed :
        p.value = IF p.raw = "unset" THEN p.name # "debug" ELSE p.raw \notin FalseRaws

\* debug, false by default, resolved to true from the empty text
C23_Witness == parsed = {[name |-> "debug", raw |-> "", value |-> TRUE]}

NextLog == GetConfig \/ SetEnvLogLevel \/ SetConfigAttr \/ ResetConfig

SpecLog == Init /\ [][NextLog]_vars

\* C10: in the tools module a backing payload of strength "weak" makes every
\* phase operation that receives it raise: stress_test_argument and
\* render_verdict alike.
C10_ToolsRejectWeakBacking ==
    (tools_result.tool # "" /\ backing_json.json = "object" /\ backing_json.strength = "weak") =>
        tools_result.raised # ""

====
